---- MODULE Spec2Model ----
(***************************************************************************)
(* Model of the grip classifier of roboCleaner/ml_model:                   *)
(*   grip_classifier.py        GripClassifier (inference)                  *)
(*   train_grip_classifier.py  loader, feature extraction, training main   *)
(*                                                                         *)
(* Coordinates are integers on a grid (one unit = 1/Grid of the image);    *)
(* a floating-point distance is kept in fixed point, Scale units per grid  *)
(* unit, rounded down.  Python's 0-based index k is position k+1 here.     *)
(***************************************************************************)
EXTENDS Integers, Sequences, FiniteSets, TLC

VARIABLES
    landmarks,    \* the argument handed to the two feature extractors
    infResult,    \* outcome of GripClassifier.extract_features(landmarks)
    trainResult,  \* outcome of extract_advanced_features(landmarks)
    loadSrc,      \* the JSON mapping handed to load_landmark_data, in file order
    loadLabel,    \* the label handed to load_landmark_data
    loadResult,   \* what load_landmark_data returned and printed
    fistSrc,      \* fist_data/fist.json: missing, or its records
    palmSrc,      \* fist_data/palm.json: missing, or its records
    modelFile,    \* grip_models/grip_classifier.pkl
    metaFile,     \* grip_models/model_metadata.json
    pc,           \* position of main() of train_grip_classifier.py
    data,         \* main's X and y
    trained,      \* main's rf_model and svm_model, the split and the printed accuracies
    chosen,       \* main's rf_acc, svm_acc, best_model and model_name
    cls,          \* the GripClassifier object: model, metadata
    lastCall      \* the most recent call on the classifier and what it returned

extractVars == <<landmarks, infResult, trainResult>>
loadVars == <<loadSrc, loadLabel, loadResult>>
fileVars == <<modelFile, metaFile>>
mainVars == <<fistSrc, palmSrc, pc, data, trained, chosen>>
clsVars == <<cls, lastCall>>
vars == <<extractVars, loadVars, fileVars, mainVars, clsVars>>

-----------------------------------------------------------------------------
(* Bounds of the model *)

MaxOffset == 1      \* translations of a template hand: 0..MaxOffset per axis
MaxDelta == 1       \* list lengths NumLandmarks-MaxDelta .. NumLandmarks+MaxDelta
MaxCoords == 3      \* coordinates per point: 0..MaxCoords
Scale == 10         \* fixed-point units per grid unit of a distance

(* Program constants *)

NumLandmarks == 21
FlatLen == 42
CosEps == 1         \* the 1e-6 added to the denominator: the smallest positive unit

-----------------------------------------------------------------------------
(* Outcomes of a call *)

None == [kind |-> "none"]
Raise == [kind |-> "raise"]
Pending == [kind |-> "pending"]
Ok(v) == [kind |-> "ok", vec |-> v]

-----------------------------------------------------------------------------
(* numpy helpers *)

RECURSIVE ISqrtFrom(_, _)
ISqrtFrom(v, r) == IF (r + 1) * (r + 1) > v THEN r ELSE ISqrtFrom(v, r + 1)

ISqrt(v) == ISqrtFrom(v, 0)

RECURSIVE SumSqDiff(_, _, _)
SumSqDiff(p, q, k) ==
    IF k = 0 THEN 0
    ELSE (p[k] - q[k]) * (p[k] - q[k]) + SumSqDiff(p, q, k - 1)

\* np.linalg.norm(p - q), in fixed point
Norm(p, q) == ISqrt(Scale * Scale * SumSqDiff(p, q, Len(p)))

RECURSIVE DotFrom(_, _, _, _)
DotFrom(p, q, w, k) ==
    IF k = 0 THEN 0
    ELSE (p[k] - w[k]) * (q[k] - w[k]) + DotFrom(p, q, w, k - 1)

\* np.dot(p - w, q - w), in grid units squared
Dot(p, q, w) == DotFrom(p, q, w, Len(p))

RECURSIVE SeqSum(_)
SeqSum(s) == IF s = <<>> THEN 0 ELSE Head(s) + SeqSum(Tail(s))

SetMax(S) == CHOOSE m \in S : \A x \in S : x <= m
SetMin(S) == CHOOSE m \in S : \A x \in S : m <= x

\* np.array(list of points): a rectangular array, or an error when the rows differ
IsRect(pts) == \A i \in 1..Len(pts) : Len(pts[i]) = Len(pts[1])

-----------------------------------------------------------------------------
(* Feature extraction, shared shape of both extractors' bodies *)

TipIdx == <<4, 8, 12, 16, 20>>
McpIdx == <<5, 9, 13, 17>>

Wrist(points) == points[0 + 1]
Tips(points) == [i \in 1..Len(TipIdx) |-> points[TipIdx[i] + 1]]
Mcps(points) == [i \in 1..Len(McpIdx) |-> points[McpIdx[i] + 1]]

TipDists(points) ==
    [i \in 1..Len(TipIdx) |-> Norm(Tips(points)[i], Wrist(points))]

AvgTipDist(points) == SeqSum(TipDists(points)) \div Len(TipIdx)

Spread(points, c) ==
    LET vals == {Tips(points)[i][c] : i \in 1..Len(TipIdx)}
    IN  SetMax(vals) - SetMin(vals)

CosAngle(points, i) ==
    LET w == Wrist(points)
        a == Mcps(points)[i]
        b == Mcps(points)[i + 1]
    IN  (Dot(a, b, w) * Scale * Scale * Scale)
            \div (Norm(a, w) * Norm(b, w) + CosEps)

CosAngles(points) == [i \in 1..(Len(McpIdx) - 1) |-> CosAngle(points, i)]

HandArea(points) ==
    LET xs == {points[i][1] : i \in 1..Len(points)}
        ys == {points[i][2] : i \in 1..Len(points)}
    IN  (SetMax(xs) - SetMin(xs)) * (SetMax(ys) - SetMin(ys))

\* a slip: the tip coordinates as they are, the wrist not taken off
RECURSIVE RelCoordsRaw(_, _)
RelCoordsRaw(points, i) ==
    IF i > Len(TipIdx) THEN <<>>
    ELSE <<Tips(points)[i][1], Tips(points)[i][2]>> \o RelCoordsRaw(points, i + 1)

RECURSIVE RelCoords(_, _)
RelCoords(points, i) ==
    IF i > Len(TipIdx) THEN <<>>
    ELSE <<Tips(points)[i][1] - Wrist(points)[1],
           Tips(points)[i][2] - Wrist(points)[2]>> \o RelCoords(points, i + 1)

\* grip_classifier.py: the features list built by extract_features
InfFeatureList(points) ==
    TipDists(points)
        \o <<AvgTipDist(points)>>
        \o <<Spread(points, 1), Spread(points, 2)>>
        \o <<Norm(Tips(points)[1], Tips(points)[2])>>
        \o <<Norm(Tips(points)[2], Tips(points)[3])>>
        \o CosAngles(points)
        \o <<HandArea(points)>>
        \o RelCoords(points, 1)

(* train_grip_classifier.py: the same steps, written out a second time there *)

AdvTipIdx == <<4, 8, 12, 16, 20>>
AdvMcpIdx == <<5, 9, 13, 17>>

AdvWrist(points) == points[0 + 1]
AdvTips(points) == [i \in 1..Len(AdvTipIdx) |-> points[AdvTipIdx[i] + 1]]
AdvMcps(points) == [i \in 1..Len(AdvMcpIdx) |-> points[AdvMcpIdx[i] + 1]]

AdvTipDists(points) ==
    [i \in 1..Len(AdvTipIdx) |-> Norm(AdvTips(points)[i], AdvWrist(points))]

AdvAvgTipDist(points) == SeqSum(AdvTipDists(points)) \div Len(AdvTipIdx)

AdvSpread(points, c) ==
    LET vals == {AdvTips(points)[i][c] : i \in 1..Len(AdvTipIdx)}
    IN  SetMax(vals) - SetMin(vals)

AdvCosAngle(points, i) ==
    LET w == AdvWrist(points)
        a == AdvMcps(points)[i]
        b == AdvMcps(points)[i + 1]
    IN  (Dot(a, b, w) * Scale * Scale * Scale)
            \div (Norm(a, w) * Norm(b, w) + CosEps)

AdvCosAngles(points) ==
    [i \in 1..(Len(AdvMcpIdx) - 1) |-> AdvCosAngle(points, i)]

AdvHandArea(points) ==
    LET xs == {points[i][1] : i \in 1..Len(points)}
        ys == {points[i][2] : i \in 1..Len(points)}
    IN  (SetMax(xs) - SetMin(xs)) * (SetMax(ys) - SetMin(ys))

RECURSIVE AdvRelCoords(_, _)
AdvRelCoords(points, i) ==
    IF i > Len(AdvTipIdx) THEN <<>>
    ELSE <<AdvTips(points)[i][1] - AdvWrist(points)[1],
           AdvTips(points)[i][2] - AdvWrist(points)[2]>>
             \o AdvRelCoords(points, i + 1)

\* a slip in the order: the hand area ahead of the angles
TrainFeatureListAreaFirst(points) ==
    AdvTipDists(points)
        \o <<AdvAvgTipDist(points)>>
        \o <<AdvSpread(points, 1), AdvSpread(points, 2)>>
        \o <<Norm(AdvTips(points)[1], AdvTips(points)[2])>>
        \o <<Norm(AdvTips(points)[2], AdvTips(points)[3])>>
        \o <<AdvHandArea(points)>>
        \o AdvCosAngles(points)
        \o AdvRelCoords(points, 1)

\* the features list built by extract_advanced_features
TrainFeatureList(points) ==
    AdvTipDists(points)
        \o <<AdvAvgTipDist(points)>>
        \o <<AdvSpread(points, 1), AdvSpread(points, 2)>>
        \o <<Norm(AdvTips(points)[1], AdvTips(points)[2])>>
        \o <<Norm(AdvTips(points)[2], AdvTips(points)[3])>>
        \o AdvCosAngles(points)
        \o <<AdvHandArea(points)>>
        \o AdvRelCoords(points, 1)

\* the body after the length check: np.array, then indexing tip[0], tip[1]
InfBody(pts) ==
    IF ~IsRect(pts) THEN Raise
    ELSE IF Len(pts[1]) < 2 THEN Raise
    ELSE Ok(InfFeatureList(pts))

TrainBody(pts) ==
    IF ~IsRect(pts) THEN Raise
    ELSE IF Len(pts[1]) < 2 THEN Raise
    ELSE Ok(TrainFeatureList(pts))

\* an argument is a list of points, or a tracker object with a .landmark
\* attribute whose items expose .x and .y
AsPoints(arg) ==
    IF arg.form = "object"
    THEN [i \in 1..Len(arg.pts) |-> <<arg.pts[i][1], arg.pts[i][2]>>]
    ELSE arg.pts

\* a slip in the length check: only shorter lists are turned away
ExtractFeaturesAtLeast(arg) ==
    LET pts == AsPoints(arg)
    IN  IF Len(pts) < NumLandmarks THEN None ELSE InfBody(pts)

\* GripClassifier.extract_features
ExtractFeatures(arg) ==
    LET pts == AsPoints(arg)
    IN  IF Len(pts) # NumLandmarks THEN None ELSE InfBody(pts)

\* extract_advanced_features: len() of a tracker object raises
ExtractAdvancedFeatures(arg) ==
    IF arg.form = "object" THEN Raise
    ELSE IF Len(arg.pts) # NumLandmarks THEN None
    ELSE TrainBody(arg.pts)

-----------------------------------------------------------------------------
(* Bounded inputs: template hands, translated, resized, reshaped *)

OpenHand ==
    << <<5, 9>>,
       <<4, 8>>, <<3, 7>>, <<2, 6>>, <<1, 5>>,
       <<4, 6>>, <<4, 5>>, <<4, 4>>, <<4, 2>>,
       <<5, 6>>, <<5, 5>>, <<5, 3>>, <<5, 1>>,
       <<6, 6>>, <<6, 5>>, <<6, 4>>, <<6, 2>>,
       <<7, 7>>, <<7, 6>>, <<8, 5>>, <<8, 4>> >>

ClosedHand ==
    << <<5, 9>>,
       <<4, 8>>, <<4, 7>>, <<5, 7>>, <<5, 8>>,
       <<4, 7>>, <<4, 6>>, <<4, 7>>, <<4, 8>>,
       <<5, 7>>, <<5, 6>>, <<5, 7>>, <<5, 8>>,
       <<6, 7>>, <<6, 6>>, <<6, 7>>, <<6, 8>>,
       <<6, 8>>, <<7, 7>>, <<7, 8>>, <<6, 9>> >>

PointHand == [i \in 1..NumLandmarks |-> <<5, 5>>]

Templates == {OpenHand, ClosedHand, PointHand}

Offsets == (0..MaxOffset) \X (0..MaxOffset)

Translate(h, o) == [i \in 1..Len(h) |-> <<h[i][1] + o[1], h[i][2] + o[2]>>]

BaseHands == {Translate(t, o) : t \in Templates, o \in Offsets}

\* the first n points of h, repeating the last point beyond its end
Resize(h, n) == [i \in 1..n |-> IF i <= Len(h) THEN h[i] ELSE h[Len(h)]]

\* a point with c coordinates: cut, or padded with zeros
Recoord(p, c) == [k \in 1..c |-> IF k <= Len(p) THEN p[k] ELSE 0]

WithCoords(h, c) == [i \in 1..Len(h) |-> Recoord(h[i], c)]

Ragged(h, at, c) == [i \in 1..Len(h) |-> IF i = at THEN Recoord(h[i], c) ELSE h[i]]

Lengths == {0} \cup ((NumLandmarks - MaxDelta)..(NumLandmarks + MaxDelta))

BadAt == {1, 5, NumLandmarks}

PointLists ==
    {Resize(h, n) : h \in BaseHands, n \in Lengths}
        \cup {WithCoords(h, c) : h \in BaseHands, c \in 0..MaxCoords}
        \cup {Ragged(h, at, c) : h \in BaseHands, at \in BadAt, c \in 0..MaxCoords}
        \cup {Ragged(Resize(h, NumLandmarks - 1), 1, 1) : h \in BaseHands}

ListArg(pts) == [form |-> "list", pts |-> pts]
ObjectArg(pts) == [form |-> "object", pts |-> pts]

Inputs ==
    {ListArg(p) : p \in PointLists}
        \cup {ObjectArg(Resize(h, n)) : h \in BaseHands, n \in Lengths}
-----------------------------------------------------------------------------
(* load_landmark_data *)

\* a record of the JSON mapping: its 'landmarks' key, when present, lists hands
Rec(hands) == [hasKey |-> TRUE, landmarks |-> hands]
NoKeyRec == [hasKey |-> FALSE, landmarks |-> <<>>]

\* the inner loop: x and y of every point that has at least two coordinates
RECURSIVE FlattenFrom(_, _)
FlattenFrom(hand, i) ==
    IF i > Len(hand) THEN <<>>
    ELSE (IF Len(hand[i]) >= 2 THEN <<hand[i][1], hand[i][2]>> ELSE <<>>)
            \o FlattenFrom(hand, i + 1)

Flatten(hand) == FlattenFrom(hand, 1)

\* does the loop body append this record?
Accepts(rec) ==
    /\ rec.hasKey
    /\ Len(rec.landmarks) > 0
    /\ Len(rec.landmarks[1]) = NumLandmarks
    /\ Len(Flatten(rec.landmarks[1])) = FlatLen

\* a slip: the last hand of a record taken in place of the first
RECURSIVE LoadFromLastHand(_, _, _)
LoadFromLastHand(src, label, i) ==
    IF i > Len(src) THEN [features |-> <<>>, labels |-> <<>>, count |-> 0]
    ELSE LET rest == LoadFromLastHand(src, label, i + 1)
             hands == src[i].landmarks
         IN  IF /\ src[i].hasKey
                /\ Len(hands) > 0
                /\ Len(hands[Len(hands)]) = NumLandmarks
                /\ Len(Flatten(hands[Len(hands)])) = FlatLen
             THEN [features |-> <<Flatten(hands[Len(hands)])>> \o rest.features,
                   labels |-> <<label>> \o rest.labels,
                   count |-> rest.count + 1]
             ELSE rest

RECURSIVE LoadFrom(_, _, _)
LoadFrom(src, label, i) ==
    IF i > Len(src) THEN [features |-> <<>>, labels |-> <<>>, count |-> 0]
    ELSE LET rest == LoadFrom(src, label, i + 1)
         IN  IF Accepts(src[i])
             THEN [features |-> <<Flatten(src[i].landmarks[1])>> \o rest.features,
                   labels |-> <<label>> \o rest.labels,
                   count |-> rest.count + 1]
             ELSE rest

\* what load_landmark_data prints about the load: the "Loaded {count} samples" line
LoadReport(count) == [loaded |-> count]

\* load_landmark_data(json_file_path, label) on a readable file
LoadLandmarkData(src, label) ==
    LET r == LoadFrom(src, label, 1)
    IN  [kind |-> "ok", features |-> r.features, labels |-> r.labels,
         report |-> LoadReport(r.count)]

-----------------------------------------------------------------------------
(* Bounded inputs of the loader *)

MaxRecords == 3     \* records per source in the loader's specification

ShortHand == Resize(OpenHand, NumLandmarks - 1)
LongHand == Resize(OpenHand, NumLandmarks + 1)

LoadRecords ==
    { NoKeyRec,
      Rec(<<>>),
      Rec(<<OpenHand>>),
      Rec(<<ClosedHand>>),
      Rec(<<ShortHand>>),
      Rec(<<LongHand>>),
      Rec(<<ClosedHand, ShortHand>>),
      Rec(<<ShortHand, OpenHand>>),
      Rec(<<ClosedHand, OpenHand>>),
      Rec(<<WithCoords(OpenHand, 3)>>),
      Rec(<<Ragged(ClosedHand, 5, 1)>>) }

RECURSIVE SeqsUpTo(_, _)
SeqsUpTo(S, n) ==
    IF n = 0 THEN {<<>>}
    ELSE LET shorter == SeqsUpTo(S, n - 1)
         IN  shorter \cup {Append(s, x) : s \in {t \in shorter : Len(t) = n - 1}, x \in S}

Labels == {0, 1}

-----------------------------------------------------------------------------
(* load_data_with_advanced_features *)

\* [x1, y1, x2, y2, ...] -> [[x1, y1], [x2, y2], ...]
Unflatten(flat) == [i \in 1..(Len(flat) \div 2) |-> <<flat[2 * i - 1], flat[2 * i]>>]

\* one of the two loops: the rows kept for one class
RECURSIVE AdvancedRows(_, _)
AdvancedRows(flats, i) ==
    IF i > Len(flats) THEN <<>>
    ELSE LET features == ExtractAdvancedFeatures(
                             [form |-> "list", pts |-> Unflatten(flats[i])])
         IN  (IF features.kind = "ok" /\ Len(features.vec) > 0
              THEN <<features.vec>> ELSE <<>>)
                \o AdvancedRows(flats, i + 1)

LoadDataWithAdvancedFeatures(fist, palm) ==
    LET f == LoadLandmarkData(fist, 0)
        q == LoadLandmarkData(palm, 1)
        fr == AdvancedRows(f.features, 1)
        pr == AdvancedRows(q.features, 1)
    IN  [X |-> fr \o pr,
         y |-> [i \in 1..Len(fr) |-> 0] \o [i \in 1..Len(pr) |-> 1]]

-----------------------------------------------------------------------------
(* The classifiers of scikit-learn, as far as main and predict use them.   *)
(* A fitted model is a cut on the mean tip distance (feature 6): what fit  *)
(* learns is not modelled, so fit may return any cut of Cuts.              *)

Cuts == {0, 30, 40}

Fitted(type, cut) == [kind |-> "model", type |-> type, hasProba |-> TRUE, cut |-> cut]

\* model.predict on one row
ModelPredict(model, row) == IF row[6] < model.cut THEN 0 ELSE 1

\* model.predict_proba on one row, in percent
ModelPredictProba(model, row) ==
    LET far == (row[6] + 20 < model.cut) \/ (row[6] >= model.cut + 20)
        hi == IF far THEN 100 ELSE 60
    IN  IF row[6] < model.cut THEN <<hi, 100 - hi>> ELSE <<100 - hi, hi>>

\* accuracy_score over the rows idx, as a fraction
AccuracyScore(model, X, y, idx) ==
    [num |-> Cardinality({i \in idx : ModelPredict(model, X[i]) = y[i]}),
     den |-> Cardinality(idx)]

FracGeq(a, b) == a.num * b.den >= b.num * a.den
FracEq(a, b) == a.num * b.den = b.num * a.den

(* train_test_split(X, y, test_size=0.2, random_state=42, stratify=y) *)

TestDen == 5        \* test_size = 0.2 = 1/TestDen

ClassCount(y, c) == Cardinality({i \in 1..Len(y) : y[i] = c})
Classes(y) == {y[i] : i \in 1..Len(y)}
NTest(n) == (n + TestDen - 1) \div TestDen
NTrain(n) == n - NTest(n)

SplitRaises(y) ==
    \/ \E c \in Classes(y) : ClassCount(y, c) < 2
    \/ NTest(Len(y)) < Cardinality(Classes(y))
    \/ NTrain(Len(y)) < Cardinality(Classes(y))

MaxShuffle == 1     \* shuffles of the split that are told apart: 0..MaxShuffle

\* position of row i among the rows of its class
RankInClass(y, i) == Cardinality({j \in 1..i : y[j] = y[i]})

\* shuffle s puts the rows s+1 .. s+k of every class into the test partition
TakenBy(y, T, s) ==
    \A c \in Classes(y) :
        LET k == Cardinality({i \in T : y[i] = c})
        IN  {RankInClass(y, i) : i \in {j \in T : y[j] = c}} = (s + 1)..(s + k)

\* the test partitions a stratified shuffle can produce: the share of every
\* class is kept up to rounding; which rows the seed picks is left open
\* among the shuffles 0..MaxShuffle
TestSets(y) ==
    {T \in SUBSET (1..Len(y)) :
        /\ Cardinality(T) = NTest(Len(y))
        /\ \A c \in Classes(y) :
              LET k == Cardinality({i \in T : y[i] = c})
              IN  /\ ClassCount(y, c) \div TestDen <= k
                  /\ k <= (ClassCount(y, c) + TestDen - 1) \div TestDen
        /\ \E s \in 0..MaxShuffle : TakenBy(y, T, s)}

\* SVC.fit refuses a training set with one class
FitRaises(type, y) == type = "svm" /\ Cardinality(Classes(y)) < 2

-----------------------------------------------------------------------------
(* Files *)

Absent == [kind |-> "absent"]
Corrupt == [kind |-> "corrupt"]

\* run tells which run of main wrote a file: 0 an earlier run, 1 this one
Pickle(model, run) ==
    [kind |-> "model", type |-> model.type, hasProba |-> model.hasProba,
     cut |-> model.cut, run |-> run]

\* lines 301-308
Metadata(model_name, X, y, rf_acc, svm_acc) ==
    [model_type |-> model_name,
     feature_count |-> Len(X[1]),
     training_samples |-> Len(X),
     fist_samples |-> ClassCount(y, 0),
     palm_samples |-> ClassCount(y, 1),
     accuracy |-> IF model_name = "random_forest" THEN rf_acc ELSE svm_acc]

MetaJson(metadata, run) == [kind |-> "meta", fields |-> metadata, run |-> run]

PriorFraction == [num |-> 1, den |-> 1]

PriorMetadata ==
    [model_type |-> "svm", feature_count |-> 24, training_samples |-> 10,
     fist_samples |-> 5, palm_samples |-> 5, accuracy |-> PriorFraction]

\* a pickled estimator without predict_proba
PlainModel == [kind |-> "model", type |-> "plain", hasProba |-> FALSE, cut |-> 30]

PriorModelFiles ==
    {Absent, Corrupt, Pickle(Fitted("svm", 30), 0), Pickle(PlainModel, 0)}

PriorMetaFiles == {Absent, Corrupt, MetaJson(PriorMetadata, 0)}

-----------------------------------------------------------------------------
(* Sources of a training run *)

MaxGood == 4        \* well-formed records of the larger source

MissingSrc == [kind |-> "missing"]
FileSrc(recs) == [kind |-> "file", recs |-> recs]

GoodRecs(h, g) == [i \in 1..g |-> Rec(<<Translate(h, <<i % 2, 0>>)>>)]

FistSources ==
    { MissingSrc,
      FileSrc(<<Rec(<<>>), Rec(<<ShortHand>>)>>),
      FileSrc(GoodRecs(ClosedHand, 1)),
      FileSrc(<<Rec(<<>>)>> \o GoodRecs(ClosedHand, MaxGood - 1)) }

PalmSources ==
    { MissingSrc,
      FileSrc(<<NoKeyRec>>),
      FileSrc(GoodRecs(OpenHand, MaxGood)) }

-----------------------------------------------------------------------------
(* main() of train_grip_classifier.py, one action per step that the file   *)
(* system or a failure can tell apart                                      *)

NoData == [X |-> <<>>, y |-> <<>>]
NoModel == [kind |-> "nomodel"]
NoFrac == [num |-> 0, den |-> 0]
NotTrained ==
    [rf |-> NoModel, svm |-> NoModel, test |-> {},
     rfHeldOut |-> NoFrac, svmHeldOut |-> NoFrac]
NotChosen ==
    [rf_acc |-> NoFrac, svm_acc |-> NoFrac, best_model |-> NoModel, model_name |-> ""]

\* lines 252-258
CheckFiles ==
    /\ pc = "start"
    /\ pc' = IF fistSrc.kind = "missing" THEN "no_fist"
             ELSE IF palmSrc.kind = "missing" THEN "no_palm"
             ELSE "checked"
    /\ UNCHANGED <<fistSrc, palmSrc, data, trained, chosen>>
    /\ UNCHANGED <<fileVars, clsVars, extractVars, loadVars>>

\* a slip: the check for an empty X left out
LoadDataUnchecked ==
    /\ pc = "checked"
    /\ data' = LoadDataWithAdvancedFeatures(fistSrc.recs, palmSrc.recs)
    /\ pc' = "loaded"
    /\ UNCHANGED <<fistSrc, palmSrc, trained, chosen>>
    /\ UNCHANGED <<fileVars, clsVars, extractVars, loadVars>>

\* lines 261-265
LoadData ==
    /\ pc = "checked"
    /\ data' = LoadDataWithAdvancedFeatures(fistSrc.recs, palmSrc.recs)
    /\ pc' = IF Len(data'.X) = 0 THEN "no_data" ELSE "loaded"
    /\ UNCHANGED <<fistSrc, palmSrc, trained, chosen>>
    /\ UNCHANGED <<fileVars, clsVars, extractVars, loadVars>>

\* train_model(X, y, 'random_forest'), line 273
TrainRF ==
    /\ pc = "loaded"
    /\ IF SplitRaises(data.y) \/ FitRaises("random_forest", data.y)
       THEN pc' = "raised" /\ UNCHANGED trained
       ELSE \E T \in TestSets(data.y), cut \in Cuts :
              LET model == Fitted("random_forest", cut)
              IN  /\ trained' = [trained EXCEPT
                        !.rf = model, !.test = T,
                        !.rfHeldOut = AccuracyScore(model, data.X, data.y, T)]
                  /\ pc' = "rf_trained"
    /\ UNCHANGED <<fistSrc, palmSrc, data, chosen>>
    /\ UNCHANGED <<fileVars, clsVars, extractVars, loadVars>>

\* train_model(X, y, 'svm'), line 274: the same seed gives the same split
TrainSVM ==
    /\ pc = "rf_trained"
    /\ IF SplitRaises(data.y) \/ FitRaises("svm", data.y)
       THEN pc' = "raised" /\ UNCHANGED trained
       ELSE \E cut \in Cuts :
              LET model == Fitted("svm", cut)
              IN  /\ trained' = [trained EXCEPT
                        !.svm = model,
                        !.svmHeldOut = AccuracyScore(model, data.X, data.y, trained.test)]
                  /\ pc' = "svm_trained"
    /\ UNCHANGED <<fistSrc, palmSrc, data, chosen>>
    /\ UNCHANGED <<fileVars, clsVars, extractVars, loadVars>>

\* a slip in the comparison: a tie goes to the kernel classifier
SelectBestStrict(rf_model, svm_model, rf_acc, svm_acc) ==
    IF ~FracGeq(svm_acc, rf_acc)
    THEN [rf_acc |-> rf_acc, svm_acc |-> svm_acc,
          best_model |-> rf_model, model_name |-> "random_forest"]
    ELSE [rf_acc |-> rf_acc, svm_acc |-> svm_acc,
          best_model |-> svm_model, model_name |-> "svm"]

\* lines 283-290
SelectBest(rf_model, svm_model, rf_acc, svm_acc) ==
    IF FracGeq(rf_acc, svm_acc)
    THEN [rf_acc |-> rf_acc, svm_acc |-> svm_acc,
          best_model |-> rf_model, model_name |-> "random_forest"]
    ELSE [rf_acc |-> rf_acc, svm_acc |-> svm_acc,
          best_model |-> svm_model, model_name |-> "svm"]

\* lines 277-290
Select ==
    /\ pc = "svm_trained"
    /\ LET all == 1..Len(data.X)
       IN  chosen' = SelectBest(trained.rf, trained.svm,
                                AccuracyScore(trained.rf, data.X, data.y, all),
                                AccuracyScore(trained.svm, data.X, data.y, all))
    /\ pc' = "selected"
    /\ UNCHANGED <<fistSrc, palmSrc, data, trained>>
    /\ UNCHANGED <<fileVars, clsVars, extractVars, loadVars>>

\* lines 293-298: joblib.dump, which can fail before or while it writes
SaveModel ==
    /\ pc = "selected"
    /\ \/ /\ modelFile' = Pickle(chosen.best_model, 1)
          /\ pc' = "model_saved"
       \/ /\ modelFile' \in {modelFile, Corrupt}
          /\ pc' = "raised"
    /\ UNCHANGED <<fistSrc, palmSrc, data, trained, chosen, metaFile>>
    /\ UNCHANGED <<clsVars, extractVars, loadVars>>

\* lines 301-314: open(..., 'w') and json.dump, which can fail likewise
SaveMetadata ==
    /\ pc = "model_saved"
    /\ \/ /\ metaFile' = MetaJson(Metadata(chosen.model_name, data.X, data.y,
                                           chosen.rf_acc, chosen.svm_acc), 1)
          /\ pc' = "done"
       \/ /\ metaFile' \in {metaFile, Corrupt}
          /\ pc' = "raised"
    /\ UNCHANGED <<fistSrc, palmSrc, data, trained, chosen, modelFile>>
    /\ UNCHANGED <<clsVars, extractVars, loadVars>>

-----------------------------------------------------------------------------
(* GripClassifier *)

NotBuilt == [built |-> FALSE, model |-> None, metadata |-> None, saw |-> "nothing"]
NoCall == [op |-> "none"]

\* __init__, lines 26-44
Construct(mf, jf) ==
    IF mf.kind = "absent"
    THEN [built |-> TRUE, model |-> None, metadata |-> None, saw |-> mf.kind]
    ELSE IF mf.kind = "corrupt"
    THEN [built |-> TRUE, model |-> None, metadata |-> None, saw |-> mf.kind]
    ELSE IF jf.kind = "absent"
    THEN [built |-> TRUE, model |-> mf, metadata |-> None, saw |-> mf.kind]
    ELSE IF jf.kind = "corrupt"
    THEN [built |-> TRUE, model |-> None, metadata |-> None, saw |-> mf.kind]
    ELSE [built |-> TRUE, model |-> mf, metadata |-> jf.fields, saw |-> mf.kind]

\* is_available, lines 169-171
IsAvailable(c) == c.model # None

ClsInputs ==
    { ListArg(OpenHand),
      ObjectArg(ClosedHand),
      ListArg(ShortHand),
      ListArg(WithCoords(ClosedHand, 1)),
      ListArg(Ragged(OpenHand, 5, 1)) }

\* self.extract_features(landmarks), computed once for the arguments of ClsInputs
ClsFeatures == [arg \in ClsInputs |-> ExtractFeatures(arg)]

SelfExtractFeatures(arg) ==
    IF arg \in DOMAIN ClsFeatures THEN ClsFeatures[arg] ELSE ExtractFeatures(arg)

\* the result dictionary of lines 162-167 and the model calls behind it
PredictResult(model, vec) ==
    LET prediction == ModelPredict(model, vec)
        probabilities ==
            IF model.hasProba THEN ModelPredictProba(model, vec) ELSE None
        confidence ==
            IF model.hasProba
            THEN SetMax({probabilities[i] : i \in 1..Len(probabilities)})
            ELSE 100
    IN  [result |-> [kind |-> "result",
                     is_closed |-> (prediction = 0),
                     confidence |-> confidence,
                     raw_value |-> prediction,
                     probabilities |-> probabilities],
         calls |-> <<1, IF model.hasProba THEN 1 ELSE 0>>]

\* a slip: an unloaded model reported as an error
PredictRaisingUnloaded(c, arg) ==
    IF c.model = None THEN [result |-> Raise, calls |-> <<0, 0>>]
    ELSE LET features == SelfExtractFeatures(arg)
         IN  IF features.kind = "none" THEN [result |-> None, calls |-> <<0, 0>>]
             ELSE IF features.kind = "raise"
             THEN [result |-> Raise, calls |-> <<0, 0>>]
             ELSE PredictResult(c.model, features.vec)

\* a slip: the two labels taken the other way round
PredictOpenIsZero(c, arg) ==
    IF c.model = None THEN [result |-> None, calls |-> <<0, 0>>]
    ELSE LET features == SelfExtractFeatures(arg)
         IN  IF features.kind = "none" THEN [result |-> None, calls |-> <<0, 0>>]
             ELSE IF features.kind = "raise"
             THEN [result |-> Raise, calls |-> <<0, 0>>]
             ELSE LET r == PredictResult(c.model, features.vec)
                  IN  [r EXCEPT !.result.is_closed = (r.result.raw_value = 1)]

\* predict, lines 141-167; calls counts the uses of model.predict and of
\* model.predict_proba
Predict(c, arg) ==
    IF c.model = None THEN [result |-> None, calls |-> <<0, 0>>]
    ELSE LET features == SelfExtractFeatures(arg)
         IN  IF features.kind = "none" THEN [result |-> None, calls |-> <<0, 0>>]
             ELSE IF features.kind = "raise"
             THEN [result |-> Raise, calls |-> <<0, 0>>]
             ELSE PredictResult(c.model, features.vec)

NewClassifier ==
    /\ ~cls.built
    /\ cls' = Construct(modelFile, metaFile)
    /\ UNCHANGED <<lastCall, fileVars, mainVars, extractVars, loadVars>>

\* a slip: predict drops the model when the landmarks are turned away
CallPredictDropping ==
    /\ cls.built
    /\ \E arg \in ClsInputs :
          LET r == Predict(cls, arg)
          IN  /\ lastCall' = [op |-> "predict", arg |-> arg,
                              result |-> r.result, calls |-> r.calls]
              /\ cls' = IF r.result = None THEN [cls EXCEPT !.model = None] ELSE cls
    /\ UNCHANGED <<fileVars, mainVars, extractVars, loadVars>>

CallPredict ==
    /\ cls.built
    /\ \E arg \in ClsInputs :
          LET r == Predict(cls, arg)
          IN  lastCall' = [op |-> "predict", arg |-> arg,
                           result |-> r.result, calls |-> r.calls]
    /\ UNCHANGED <<cls, fileVars, mainVars, extractVars, loadVars>>

CallIsAvailable ==
    /\ cls.built
    /\ lastCall' = [op |-> "is_available", result |-> IsAvailable(cls)]
    /\ UNCHANGED <<cls, fileVars, mainVars, extractVars, loadVars>>

CallClsExtract ==
    /\ cls.built
    /\ \E arg \in ClsInputs :
          lastCall' = [op |-> "extract_features", arg |-> arg,
                       result |-> SelfExtractFeatures(arg)]
    /\ UNCHANGED <<cls, fileVars, mainVars, extractVars, loadVars>>

-----------------------------------------------------------------------------
(* Specification of a training run beside a classifier *)

MainIdle ==
    /\ fistSrc = MissingSrc
    /\ palmSrc = MissingSrc
    /\ modelFile = Absent
    /\ metaFile = Absent
    /\ pc = "idle"
    /\ data = NoData
    /\ trained = NotTrained
    /\ chosen = NotChosen
    /\ cls = NotBuilt
    /\ lastCall = NoCall

Init ==
    /\ fistSrc \in FistSources
    /\ palmSrc \in PalmSources
    /\ modelFile \in PriorModelFiles
    /\ metaFile \in PriorMetaFiles
    /\ pc = "start"
    /\ data = NoData
    /\ trained = NotTrained
    /\ chosen = NotChosen
    /\ cls = NotBuilt
    /\ lastCall = NoCall
    /\ landmarks = [form |-> "list", pts |-> <<>>]
    /\ infResult = Pending
    /\ trainResult = Pending
    /\ loadSrc = <<>>
    /\ loadLabel = 0
    /\ loadResult = Pending

Next ==
    \/ CheckFiles
    \/ LoadData
    \/ TrainRF
    \/ TrainSVM
    \/ Select
    \/ SaveModel
    \/ SaveMetadata
    \/ NewClassifier
    \/ CallPredict
    \/ CallIsAvailable
    \/ CallClsExtract

Spec == Init /\ [][Next]_vars

-----------------------------------------------------------------------------
(* Specification of the two extractors applied to one argument *)

ExtractIdle ==
    /\ landmarks = [form |-> "list", pts |-> <<>>]
    /\ infResult = Pending
    /\ trainResult = Pending

LoadIdle ==
    /\ loadSrc = <<>>
    /\ loadLabel = 0
    /\ loadResult = Pending

ExtractInit ==
    /\ landmarks \in Inputs
    /\ infResult = Pending
    /\ trainResult = Pending
    /\ LoadIdle
    /\ MainIdle

CallExtractFeatures ==
    /\ infResult = Pending
    /\ infResult' = ExtractFeatures(landmarks)
    /\ UNCHANGED <<landmarks, trainResult, loadVars, fileVars, mainVars, clsVars>>

CallExtractAdvancedFeatures ==
    /\ trainResult = Pending
    /\ trainResult' = ExtractAdvancedFeatures(landmarks)
    /\ UNCHANGED <<landmarks, infResult, loadVars, fileVars, mainVars, clsVars>>

ExtractNext == CallExtractFeatures \/ CallExtractAdvancedFeatures

SpecExtract == ExtractInit /\ [][ExtractNext]_vars

-----------------------------------------------------------------------------
(* Specification of load_landmark_data applied to one source *)

LoadInit ==
    /\ loadSrc \in SeqsUpTo(LoadRecords, MaxRecords)
    /\ loadLabel \in Labels
    /\ loadResult = Pending
    /\ ExtractIdle
    /\ MainIdle

CallLoadLandmarkData ==
    /\ loadResult = Pending
    /\ loadResult' = LoadLandmarkData(loadSrc, loadLabel)
    /\ UNCHANGED <<loadSrc, loadLabel, extractVars, fileVars, mainVars, clsVars>>

LoadNext == CallLoadLandmarkData

SpecLoad == LoadInit /\ [][LoadNext]_vars

-----------------------------------------------------------------------------
(* Properties *)

\* a landmark set of exactly 21 points of two coordinates each
ValidPoints(pts) ==
    /\ Len(pts) = NumLandmarks
    /\ \A i \in 1..Len(pts) : Len(pts[i]) = 2

ValidArg(arg) == ValidPoints(AsPoints(arg))

\* some point of a 21-point list has fewer than two coordinates
LacksCoords(arg) ==
    /\ Len(AsPoints(arg)) = NumLandmarks
    /\ \E i \in 1..NumLandmarks : Len(AsPoints(arg)[i]) < 2

\* C1, as stated: on every set of 21 two-coordinate points each extractor
\* returns a vector of exactly 21 scalars, and on every list whose length is
\* not 21 it returns no vector (None).
C1_VectorOf21 ==
    /\ (infResult # Pending /\ ValidArg(landmarks))
          => (infResult.kind = "ok" /\ Len(infResult.vec) = 21)
    /\ (trainResult # Pending /\ landmarks.form = "list" /\ ValidArg(landmarks))
          => (trainResult.kind = "ok" /\ Len(trainResult.vec) = 21)
    /\ (infResult # Pending /\ Len(AsPoints(landmarks)) # NumLandmarks)
          => infResult = None
    /\ (trainResult # Pending /\ landmarks.form = "list"
            /\ Len(landmarks.pts) # NumLandmarks)
          => trainResult = None

\* C1, amended: on every set of 21 two-coordinate points each extractor
\* returns a vector of exactly 24 scalars (5 + 1 + 2 + 1 + 1 + 3 + 1 + 10),
\* and on every list whose length is not 21 it returns no vector (None).
C1_VectorOf24 ==
    /\ (infResult # Pending /\ ValidArg(landmarks))
          => (infResult.kind = "ok" /\ Len(infResult.vec) = 24)
    /\ (trainResult # Pending /\ landmarks.form = "list" /\ ValidArg(landmarks))
          => (trainResult.kind = "ok" /\ Len(trainResult.vec) = 24)
    /\ (infResult # Pending /\ Len(AsPoints(landmarks)) # NumLandmarks)
          => infResult = None
    /\ (trainResult # Pending /\ landmarks.form = "list"
            /\ Len(landmarks.pts) # NumLandmarks)
          => trainResult = None

\* both extractors have answered on a valid list of 21 points
C1_Witness ==
    /\ landmarks.form = "list"
    /\ ValidArg(landmarks)
    /\ infResult.kind = "ok"
    /\ trainResult.kind = "ok"

\* C2: a classifier built where no model file exists is unavailable:
\* is_available() is false, and every predict on a valid landmark set returns
\* None without raising and without touching a model, whatever was called
\* before and whatever the training run does meanwhile.
C2_AbsentModelUnavailable ==
    (cls.built /\ cls.saw = "absent") =>
        /\ ~IsAvailable(cls)
        /\ lastCall.op = "is_available" => lastCall.result = FALSE
        /\ (lastCall.op = "predict" /\ ValidArg(lastCall.arg))
              => (lastCall.result = None /\ lastCall.calls = <<0, 0>>)

\* predict has answered a valid landmark set on a classifier built without a file
C2_Witness ==
    /\ cls.built
    /\ cls.saw = "absent"
    /\ lastCall.op = "predict"
    /\ ValidArg(lastCall.arg)
    /\ lastCall.result = None

\* C3, as stated: on an available classifier predict returns None, never
\* raises and never invokes the model for every invalid input: a list whose
\* length is not 21, and a list of 21 points one of which lacks two
\* coordinates.
C3_InvalidInputGivesNone ==
    (cls.built /\ IsAvailable(cls) /\ lastCall.op = "predict"
        /\ (Len(AsPoints(lastCall.arg)) # NumLandmarks \/ LacksCoords(lastCall.arg)))
      => (lastCall.result = None /\ lastCall.calls = <<0, 0>>)

\* the malformed records of C4: no landmark list, an empty one, or a first
\* hand that is not 21 points of two coordinates
Malformed(rec) == ~Accepts(rec)

NumMalformed(src) == Cardinality({i \in 1..Len(src) : Malformed(src[i])})

\* C4, as stated: every malformed record is skipped without aborting the
\* load, and the loader reports a skipped-count, one per malformed record, so
\* that loaded count + skipped count = number of records of the source.
C4_SkippedCountReported ==
    loadResult # Pending =>
        /\ loadResult.kind = "ok"
        /\ Len(loadResult.features) = Len(loadSrc) - NumMalformed(loadSrc)
        /\ "skipped" \in DOMAIN loadResult.report
        /\ loadResult.report.skipped = NumMalformed(loadSrc)
        /\ loadResult.report.loaded + loadResult.report.skipped = Len(loadSrc)

FromThisRun(f) == f.kind \in {"model", "meta"} /\ f.run = 1

\* C5, as stated: the model file is written only after both candidates
\* have been trained and scored, and in no state of a run, failed runs
\* included, is the model file from this run while the metadata file is
\* missing or from an earlier run.
C5_NeverPartiallyPersists ==
    FromThisRun(modelFile) =>
        /\ trained.rf # NoModel
        /\ trained.svm # NoModel
        /\ chosen # NotChosen
        /\ FromThisRun(metaFile)

FullAccuracy(model) == AccuracyScore(model, data.X, data.y, 1..Len(data.X))

\* C6: main selects the candidate with the strictly higher accuracy on the
\* entire dataset, the tree ensemble on a tie; the model file and the
\* metadata's model_type that a run writes name that candidate.
C6_SelectsHigherFullAccuracy ==
    /\ pc \in {"selected", "model_saved", "done"} =>
          LET rf == FullAccuracy(trained.rf)
              svm == FullAccuracy(trained.svm)
          IN  /\ ~FracGeq(rf, svm)
                    => (chosen.model_name = "svm" /\ chosen.best_model = trained.svm)
              /\ FracGeq(rf, svm)
                    => (chosen.model_name = "random_forest"
                          /\ chosen.best_model = trained.rf)
    /\ FromThisRun(modelFile) =>
          (modelFile.type = chosen.model_name /\ modelFile.cut = chosen.best_model.cut)
    /\ FromThisRun(metaFile) =>
          (metaFile.fields.model_type = chosen.model_name
             /\ FromThisRun(modelFile)
             /\ modelFile.type = metaFile.fields.model_type)

\* a finished run whose two candidates tie on the entire dataset
C6_Witness ==
    /\ pc = "done"
    /\ FracEq(FullAccuracy(trained.rf), FullAccuracy(trained.svm))
    /\ trained.rf.cut # trained.svm.cut
    /\ metaFile.fields.model_type = "random_forest"

\* what load_data_with_advanced_features returns for each pair of sources
\* that are there
DataOf ==
    [f \in {x \in FistSources : x.kind = "file"},
     q \in {x \in PalmSources : x.kind = "file"} |->
        LoadDataWithAdvancedFeatures(f.recs, q.recs)]

\* the three failures of C7, told from the sources alone
NoTrainingData ==
    \/ fistSrc.kind = "missing"
    \/ palmSrc.kind = "missing"
    \/ Len(DataOf[fistSrc, palmSrc].X) = 0

\* C7: when a source is missing or no valid feature vector remains, no step
\* of the run trains a candidate or changes the model file or the metadata
\* file, and the run never gets past the load.
C7_FailsBeforeTraining ==
    [][NoTrainingData =>
          /\ modelFile' = modelFile
          /\ metaFile' = metaFile
          /\ trained' = NotTrained
          /\ chosen' = NotChosen
          /\ pc' \in {"start", "checked", "no_fist", "no_palm", "no_data"}]_vars

\* a run has stopped for want of data beside the artifact of an earlier run
C7_Witness ==
    /\ pc = "no_data"
    /\ modelFile.kind = "model"
    /\ metaFile.kind = "meta"

SelectedHeldOut ==
    IF chosen.model_name = "random_forest" THEN trained.rfHeldOut ELSE trained.svmHeldOut

\* C8, as stated: the accuracy in the metadata a run writes is the selected
\* model's accuracy on the held-out test partition, and training_samples is
\* the number of samples the model was trained on.
C8_MetadataIsHeldOut ==
    FromThisRun(metaFile) =>
        /\ FracEq(metaFile.fields.accuracy, SelectedHeldOut)
        /\ metaFile.fields.training_samples = Len(data.X) - Cardinality(trained.test)

\* C9: on every list argument the two extractors give the same outcome: both
\* return None, both raise, or both return vectors of one length that agree
\* at every position, and that length is the feature_count main writes for a
\* dataset of such rows.
C9_ExtractorsAgree ==
    (landmarks.form = "list" /\ infResult # Pending /\ trainResult # Pending) =>
        /\ infResult.kind = trainResult.kind
        /\ infResult.kind = "ok" =>
              /\ Len(infResult.vec) = Len(trainResult.vec)
              /\ \A i \in 1..Len(infResult.vec) : infResult.vec[i] = trainResult.vec[i]
              /\ Len(infResult.vec) =
                    Metadata("random_forest", <<trainResult.vec>>, <<0>>,
                             NoFrac, NoFrac).feature_count

\* both extractors have returned a vector for a list of 21 points that is
\* not all in one place
C9_Witness ==
    /\ landmarks.form = "list"
    /\ infResult.kind = "ok"
    /\ trainResult.kind = "ok"
    /\ infResult.vec[1] > 0

\* C10: on an available classifier and a valid landmark set, predict calls
\* model.predict once; is_closed is true exactly when the label is 0,
\* raw_value is the label, confidence is the largest class probability when
\* the model has predict_proba and 1.0 (100 percent) otherwise, and
\* probabilities is there exactly when the model has predict_proba.
C10_PredictResult ==
    (cls.built /\ IsAvailable(cls) /\ lastCall.op = "predict" /\ ValidArg(lastCall.arg)) =>
        LET r == lastCall.result
            vec == ExtractFeatures(lastCall.arg).vec
        IN  /\ r.kind = "result"
            /\ lastCall.calls[1] = 1
            /\ r.raw_value = ModelPredict(cls.model, vec)
            /\ r.is_closed <=> (r.raw_value = 0)
            /\ cls.model.hasProba =>
                  /\ r.probabilities = ModelPredictProba(cls.model, vec)
                  /\ r.confidence \in {r.probabilities[i] : i \in 1..Len(r.probabilities)}
                  /\ \A i \in 1..Len(r.probabilities) : r.probabilities[i] <= r.confidence
            /\ ~cls.model.hasProba =>
                  /\ r.probabilities = None
                  /\ r.confidence = 100

\* predict has answered a valid landmark set with a model that has
\* predict_proba, and called the hand closed
C10_Witness ==
    /\ cls.built
    /\ IsAvailable(cls)
    /\ cls.model.hasProba
    /\ lastCall.op = "predict"
    /\ ValidArg(lastCall.arg)
    /\ lastCall.result.kind = "result"
    /\ lastCall.result.is_closed

\* C11, as stated: the metadata file is optional: a classifier built on a
\* model file that is there and loads is available and answers predict on a
\* valid landmark set, whether the metadata file is readable, absent or
\* unreadable; only an absent or unreadable model file leaves it unavailable.
C11_MetadataOptional ==
    cls.built =>
        /\ IsAvailable(cls) <=> cls.saw = "model"
        /\ (cls.saw = "model" /\ lastCall.op = "predict" /\ ValidArg(lastCall.arg))
              => lastCall.result.kind = "result"

\* C12: once the classifier is built, no step (a call of predict,
\* extract_features or is_available, or a step of a training run that
\* rewrites the files) changes its model, metadata or the file state it was
\* built from; every is_available() returns what the first would have, and
\* every predict returns what the object as built gives for that argument.
C12_ReadOnlyAfterConstruction ==
    [][cls.built =>
          /\ cls' = cls
          /\ lastCall'.op = "is_available"
                => lastCall'.result = IsAvailable(cls)
          /\ lastCall'.op = "predict"
                => lastCall'.result = Predict(cls, lastCall'.arg).result]_vars

\* predict has answered after a training run replaced the model file the
\* classifier was built from
C12_Witness ==
    /\ cls.built
    /\ IsAvailable(cls)
    /\ pc = "done"
    /\ cls.model # modelFile
    /\ lastCall.op = "predict"
    /\ lastCall.result.kind = "result"

\* a record whose first hand has exactly 21 points of at least two
\* coordinates each
Qualifies(rec) ==
    /\ rec.hasKey
    /\ Len(rec.landmarks) >= 1
    /\ Len(rec.landmarks[1]) = NumLandmarks
    /\ \A j \in 1..NumLandmarks : Len(rec.landmarks[1][j]) >= 2

QualifyingAt(src) == {i \in 1..Len(src) : Qualifies(src[i])}

\* the place in the source of its k-th qualifying record
NthQualifying(src, k) ==
    CHOOSE i \in QualifyingAt(src) :
        Cardinality({j \in QualifyingAt(src) : j <= i}) = k

\* C13: load_landmark_data emits one entry per record whose first hand has
\* exactly 21 points of at least two coordinates each, in source order; the
\* entry is made of the x and y of that first hand alone, so later hands
\* never show; the label list is as long as the landmark list and every
\* label is the one passed in.
C13_FirstHandInOrder ==
    loadResult # Pending =>
        /\ Len(loadResult.features) = Cardinality(QualifyingAt(loadSrc))
        /\ Len(loadResult.labels) = Len(loadResult.features)
        /\ \A k \in 1..Len(loadResult.labels) : loadResult.labels[k] = loadLabel
        /\ \A k \in 1..Len(loadResult.features) :
              LET hand == loadSrc[NthQualifying(loadSrc, k)].landmarks[1]
                  flat == loadResult.features[k]
              IN  /\ Len(flat) = 2 * NumLandmarks
                  /\ \A j \in 1..NumLandmarks :
                        /\ flat[2 * j - 1] = hand[j][1]
                        /\ flat[2 * j] = hand[j][2]

\* a source of three records has been loaded: one with two well-formed
\* hands, one more that qualifies and one that does not
C13_Witness ==
    /\ loadResult # Pending
    /\ Len(loadSrc) = 3
    /\ \E i \in 1..Len(loadSrc) : loadSrc[i] = Rec(<<ClosedHand, OpenHand>>)
    /\ Len(loadResult.features) = 2
    /\ loadResult.features[1] # loadResult.features[2]

\* the offsets a landmark set is moved by
Shifts == ((0 - MaxOffset)..MaxOffset) \X ((0 - MaxOffset)..MaxOffset)

Moved(arg, o) == [form |-> arg.form, pts |-> Translate(arg.pts, o)]

\* where the features named by C14 sit in the vector: the five tip
\* distances, their mean, the spread width and height, the pinch and the
\* index-middle distance (1..10), and the ten wrist-relative coordinates
Translated == (1..10) \cup (15..24)

\* C14: for every valid landmark set and every offset (dx, dy), both
\* extractors give, for the set moved by the offset, the same tip distances,
\* mean, spread, pinch and index-middle distances and wrist-relative tip
\* coordinates as for the set itself.  Coordinates are exact here: the
\* rounding of floating-point subtraction is not modelled.
C14_TranslationConsistent ==
    ValidArg(landmarks) =>
        /\ infResult.kind = "ok" =>
              \A o \in Shifts :
                  LET moved == ExtractFeatures(Moved(landmarks, o))
                  IN  /\ moved.kind = "ok"
                      /\ \A i \in Translated : moved.vec[i] = infResult.vec[i]
        /\ (trainResult.kind = "ok" /\ landmarks.form = "list") =>
              \A o \in Shifts :
                  LET moved == ExtractAdvancedFeatures(Moved(landmarks, o))
                  IN  /\ moved.kind = "ok"
                      /\ \A i \in Translated : moved.vec[i] = trainResult.vec[i]

\* both extractors have answered for the open hand moved by one unit on
\* each axis, with the thumb tip where it is relative to the wrist unmoved
C14_Witness ==
    /\ landmarks = ListArg(Translate(OpenHand, <<1, 1>>))
    /\ infResult.kind = "ok"
    /\ trainResult.kind = "ok"
    /\ infResult.vec[15] = OpenHand[5][1] - OpenHand[1][1]
    /\ trainResult.vec[16] = OpenHand[5][2] - OpenHand[1][2]

====
